---- MODULE Spec2Model ----
(***************************************************************************)
(* defer-heavy: DeferGuard (single owner, src/src/lib.rs 170-255) and      *)
(* ArcDeferGuard (reference counted, src/src/lib.rs 48-168).               *)
(*                                                                         *)
(* A "chain" g is everything that wraps the closure number g: the guard    *)
(* that was created around it and the guards obtained from that one by     *)
(* upgrade / try_downgrade.  upgrade consumes the DeferGuard and           *)
(* try_downgrade consumes the last ArcDeferGuard, so at any time a chain   *)
(* is in exactly one form.                                                 *)
(***************************************************************************)
EXTENDS Integers, Sequences, FiniteSets

\* Number of guards declared in one scope (specification SpecScope).
NumGuards == 3
\* Number of threads; thread 1 is the one that creates the guards.
NumThreads == 2
\* Largest strong count a shared cell is taken to (caps clone).
MaxRefs == 3

Chains == 1..NumGuards
Threads == 1..NumThreads
Main == 1
\* Option::None; Some(closure g) is written g.
None == 0

VARIABLES
    form,       \* chain -> "undeclared" | "guard" | "arc" | "gone"
    slot,       \* chain -> the Option<F> field: None or the closure
    canceled,   \* chain -> the AtomicBool of ArcDeferGuardInner
    strong,     \* chain -> strong count of the Arc
    held,       \* chain -> thread -> number of ArcDeferGuard handles it owns
    scope,      \* thread -> its DeferGuard bindings, in order of declaration
    phase,      \* thread -> "body" | "exit" (its scope is being left)
    pending,    \* thread -> chain whose cancel(self) has stored the flag and
                \*           has not yet released self, or None
    runs,       \* closure -> number of times it was called
    log,        \* the calls of closures, in order: [a, t, by]
    last,       \* the last method call and what it returned
    origin,     \* chain -> "none" | "guard" | "arc": how it was constructed
    touched,    \* chains whose DeferGuard had a method called on it
    trues,      \* chain -> how many DeferGuard calls returned true, by kind
    cancelCalled, \* chains whose ArcDeferGuard had cancel / cancel_ref called
    peak,       \* chain -> the largest strong count its cell has had
    errs        \* [g, ts]: the threads ts whose try_destroy / try_downgrade
                \*          on the uncanceled cell g returned Err one after
                \*          the other, only drops of handles having followed

vars == <<form, slot, canceled, strong, held, scope, phase, pending,
          runs, log, last, origin, touched, trues, cancelCalled, peak, errs>>

cellVars == <<form, slot, canceled, strong, held>>
histVars == <<origin, touched, trues, cancelCalled, peak>>

----------------------------------------------------------------------------
\* Pure parts of the code.

\* A take that reads the closure and leaves it in the slot.
TakeKeep(f) == f

\* Option::take: the slot is left None (the value taken is the old slot).
Take(f) == None

\* A drop that forgets to call the closure.
GuardDropNever(f) == FALSE

\* impl Drop for DeferGuard: the closure is called iff the slot is Some.
GuardDropRuns(f) == f # None

\* An inner drop that tests the flag the wrong way round.
InnerDropInverted(c, f) == c /\ f # None

\* An inner drop that does not look at the flag.
InnerDropIgnoresFlag(c, f) == f # None

\* impl Drop for ArcDeferGuardInner: called iff not canceled and slot is Some.
InnerDropRuns(c, f) == ~c /\ f # None

\* new_opt setting the flag when the slot holds a closure.
NewOptInverted(f) == f # None

\* new_opt starting with a clear flag whatever the slot holds, as new does.
NewOptNeverCanceled(f) == FALSE

\* ArcDeferGuard::new_opt: the initial value of the canceled flag.
NewOptCanceled(f) == f = None

\* An unwrap that does not look at the other references.
TryUnwrapAlways(n) == n >= 1

\* Arc::try_unwrap as used by try_downgrade / try_destroy: succeeds iff the
\* strong count is exactly one.
TryUnwrapOk(n) == n = 1

\* try_destroy: the bool inside Ok.
TryDestroyResult(c) == ~c

\* try_downgrade testing the flag the wrong way round.
DowngradeSlotInverted(c, f) == IF c THEN f ELSE None

\* try_downgrade: the slot of the DeferGuard inside Ok.
DowngradeSlot(c, f) == IF ~c THEN f ELSE None

----------------------------------------------------------------------------
\* Bookkeeping shared by the actions.

Remove(s, g) == SelectSeq(s, LAMBDA x : x # g)

NextChain == CHOOSE g \in Chains :
                 /\ form[g] = "undeclared"
                 /\ \A h \in Chains : h < g => form[h] # "undeclared"

\* Thread t calls closure a once per call site listed in sites, in order.
Called(t, a, sites) ==
    /\ runs' = [runs EXCEPT ![a] = @ + Len(sites)]
    /\ log' = log \o [i \in 1..Len(sites) |-> [a |-> a, t |-> t, by |-> sites[i]]]

Site(does, by) == IF does THEN <<by>> ELSE <<>>

Bool(b) == IF b THEN "true" ELSE "false"

Count(b) == IF b THEN 1 ELSE 0

TryOps == {"try_destroy", "try_downgrade"}

NoErrs == [g |-> None, ts |-> {}]

\* The record of failed try_destroy / try_downgrade calls after the call op
\* of thread t on chain g has returned res.
ErrsAfter(op, t, g, res) ==
    IF op \in TryOps /\ res = "Err" /\ ~canceled[g]
      THEN IF errs.g = g /\ last.op \in TryOps /\ last.res = "Err"
             THEN [g |-> g, ts |-> errs.ts \cup {t}]
             ELSE [g |-> g, ts |-> {t}]
      ELSE IF op = "arc_drop" /\ errs.g = g THEN errs ELSE NoErrs

Returned(op, t, g, res, ran) ==
    /\ last' = [op |-> op, t |-> t, g |-> g, res |-> res, ran |-> ran]
    /\ errs' = ErrsAfter(op, t, g, res)

Idle(t) == phase[t] = "body" /\ pending[t] = None

OwnsGuard(t, g) == \E i \in 1..Len(scope[t]) : scope[t][i] = g

Init ==
    /\ form = [g \in Chains |-> "undeclared"]
    /\ slot = [g \in Chains |-> None]
    /\ canceled = [g \in Chains |-> FALSE]
    /\ strong = [g \in Chains |-> 0]
    /\ held = [g \in Chains |-> [t \in Threads |-> 0]]
    /\ scope = [t \in Threads |-> <<>>]
    /\ phase = [t \in Threads |-> "body"]
    /\ pending = [t \in Threads |-> None]
    /\ runs = [g \in Chains |-> 0]
    /\ log = <<>>
    /\ last = [op |-> "none", t |-> Main, g |-> None, res |-> "none", ran |-> FALSE]
    /\ origin = [g \in Chains |-> "none"]
    /\ touched = {}
    /\ trues = [g \in Chains |-> [destroy |-> 0, cancel |-> 0]]
    /\ cancelCalled = {}
    /\ peak = [g \in Chains |-> 0]
    /\ errs = NoErrs

----------------------------------------------------------------------------
\* DeferGuard

\* DeferGuard::new, as the defer! / defer_guard! macros call it: a new local
\* of the current scope holding Some(closure).  n is the number of closures
\* of the program.
DeferGuardNew(t, n) ==
    /\ t = Main /\ Idle(t)
    /\ \E g \in 1..n : form[g] = "undeclared"
    /\ LET g == NextChain IN
        /\ form' = [form EXCEPT ![g] = "guard"]
        /\ slot' = [slot EXCEPT ![g] = g]
        /\ scope' = [scope EXCEPT ![t] = Append(@, g)]
        /\ origin' = [origin EXCEPT ![g] = "guard"]
        /\ Returned("new", t, g, "guard", FALSE)
    /\ UNCHANGED <<canceled, strong, held, phase, pending, runs, log,
                   touched, trues, cancelCalled, peak>>

\* destroy taking the closure and dropping it uncalled, as cancel does.
DestroyNoCall(t, g) ==
    /\ Idle(t) /\ OwnsGuard(t, g) /\ form[g] = "guard"
    /\ UNCHANGED <<runs, log>>
    /\ slot' = [slot EXCEPT ![g] = None]
    /\ Returned("destroy", t, g, Bool(slot[g] # None), FALSE)
    /\ trues' = [trues EXCEPT ![g].destroy = @ + Count(slot[g] # None)]
    /\ form' = [form EXCEPT ![g] = "gone"]
    /\ scope' = [scope EXCEPT ![t] = Remove(@, g)]
    /\ touched' = touched \cup {g}
    /\ UNCHANGED <<canceled, strong, held, phase, pending, origin, cancelCalled, peak>>

\* destroy(mut self): self.0.take().map(|f| f()).is_some(); self is then
\* dropped, which runs impl Drop on what take left in the slot.
Destroy(t, g) ==
    /\ Idle(t) /\ OwnsGuard(t, g) /\ form[g] = "guard"
    /\ LET f == slot[g]
           left == Take(f) IN
        /\ Called(t, g, Site(f # None, "destroy") \o Site(GuardDropRuns(left), "drop"))
        /\ slot' = [slot EXCEPT ![g] = None]
        /\ Returned("destroy", t, g, Bool(f # None), f # None)
        /\ trues' = [trues EXCEPT ![g].destroy = @ + Count(f # None)]
    /\ form' = [form EXCEPT ![g] = "gone"]
    /\ scope' = [scope EXCEPT ![t] = Remove(@, g)]
    /\ touched' = touched \cup {g}
    /\ UNCHANGED <<canceled, strong, held, phase, pending, origin, cancelCalled, peak>>

\* destroy_ref taking the closure and dropping it uncalled, as cancel_ref does.
DestroyRefNoCall(t, g) ==
    /\ Idle(t) /\ OwnsGuard(t, g) /\ form[g] = "guard"
    /\ slot' = [slot EXCEPT ![g] = Take(slot[g])]
    /\ Returned("destroy_ref", t, g, Bool(slot[g] # None), FALSE)
    /\ trues' = [trues EXCEPT ![g].destroy = @ + Count(slot[g] # None)]
    /\ touched' = touched \cup {g}
    /\ UNCHANGED <<form, canceled, strong, held, scope, phase, pending,
                   runs, log, origin, cancelCalled, peak>>

\* destroy_ref(&mut self): the same call, the guard stays alive.
DestroyRef(t, g) ==
    /\ Idle(t) /\ OwnsGuard(t, g) /\ form[g] = "guard"
    /\ LET f == slot[g] IN
        /\ Called(t, g, Site(f # None, "destroy_ref"))
        /\ slot' = [slot EXCEPT ![g] = Take(f)]
        /\ Returned("destroy_ref", t, g, Bool(f # None), f # None)
        /\ trues' = [trues EXCEPT ![g].destroy = @ + Count(f # None)]
    /\ touched' = touched \cup {g}
    /\ UNCHANGED <<form, canceled, strong, held, scope, phase, pending,
                   origin, cancelCalled, peak>>

\* cancel answering is_some() without taking the closure, which is then still
\* in the slot when self is dropped.
CancelNoTake(t, g) ==
    /\ Idle(t) /\ OwnsGuard(t, g) /\ form[g] = "guard"
    /\ Called(t, g, Site(GuardDropRuns(slot[g]), "drop"))
    /\ slot' = [slot EXCEPT ![g] = None]
    /\ Returned("cancel", t, g, Bool(slot[g] # None), GuardDropRuns(slot[g]))
    /\ trues' = [trues EXCEPT ![g].cancel = @ + Count(slot[g] # None)]
    /\ form' = [form EXCEPT ![g] = "gone"]
    /\ scope' = [scope EXCEPT ![t] = Remove(@, g)]
    /\ touched' = touched \cup {g}
    /\ UNCHANGED <<canceled, strong, held, phase, pending, origin, cancelCalled, peak>>

\* cancel(mut self): self.0.take().is_some(); the closure taken is dropped
\* uncalled, then self is dropped with what take left in the slot.
Cancel(t, g) ==
    /\ Idle(t) /\ OwnsGuard(t, g) /\ form[g] = "guard"
    /\ LET f == slot[g]
           left == Take(f) IN
        /\ Called(t, g, Site(GuardDropRuns(left), "drop"))
        /\ slot' = [slot EXCEPT ![g] = None]
        /\ Returned("cancel", t, g, Bool(f # None), GuardDropRuns(left))
        /\ trues' = [trues EXCEPT ![g].cancel = @ + Count(f # None)]
    /\ form' = [form EXCEPT ![g] = "gone"]
    /\ scope' = [scope EXCEPT ![t] = Remove(@, g)]
    /\ touched' = touched \cup {g}
    /\ UNCHANGED <<canceled, strong, held, phase, pending, origin, cancelCalled, peak>>

\* cancel_ref answering is_some() without taking the closure.
CancelRefNoTake(t, g) ==
    /\ Idle(t) /\ OwnsGuard(t, g) /\ form[g] = "guard"
    /\ Returned("cancel_ref", t, g, Bool(slot[g] # None), FALSE)
    /\ trues' = [trues EXCEPT ![g].cancel = @ + Count(slot[g] # None)]
    /\ touched' = touched \cup {g}
    /\ UNCHANGED <<form, slot, canceled, strong, held, scope, phase, pending,
                   runs, log, origin, cancelCalled, peak>>

\* cancel_ref(&mut self): the same, the guard stays alive.
CancelRef(t, g) ==
    /\ Idle(t) /\ OwnsGuard(t, g) /\ form[g] = "guard"
    /\ LET f == slot[g] IN
        /\ slot' = [slot EXCEPT ![g] = Take(f)]
        /\ Returned("cancel_ref", t, g, Bool(f # None), FALSE)
        /\ trues' = [trues EXCEPT ![g].cancel = @ + Count(f # None)]
    /\ touched' = touched \cup {g}
    /\ UNCHANGED <<form, canceled, strong, held, scope, phase, pending,
                   runs, log, origin, cancelCalled, peak>>

\* What impl Drop for DeferGuard does to the guard, the scope and the closure
\* when guard g of thread t is dropped; "by" labels the call in the log.
DropState(t, g, by) ==
    /\ Called(t, g, Site(GuardDropRuns(slot[g]), by))
    /\ slot' = [slot EXCEPT ![g] = None]
    /\ form' = [form EXCEPT ![g] = "gone"]
    /\ scope' = [scope EXCEPT ![t] = Remove(@, g)]

\* impl Drop for DeferGuard, on guard g of thread t; "by" is "drop" for an
\* explicit drop(guard) and "scope_end" for the implicit one.
DropImpl(t, g, by) ==
    /\ DropState(t, g, by)
    /\ Returned(by, t, g, "unit", GuardDropRuns(slot[g]))

\* drop(guard) in the body of the scope.
DropGuard(t, g) ==
    /\ Idle(t) /\ OwnsGuard(t, g) /\ form[g] = "guard"
    /\ DropImpl(t, g, "drop")
    /\ UNCHANGED <<canceled, strong, held, phase, pending, histVars>>

\* Locals dropped in order of declaration.
NextToDropFifo(s) == s[1]

\* The local dropped next when the scope is left: Rust drops the locals of a
\* scope in reverse order of declaration.
NextToDrop(s) == s[Len(s)]

\* The end of the scope (of the thread's closure, for a spawned thread) is
\* reached: from here on the thread only drops what it still owns.
ScopeEnd(t) ==
    /\ Idle(t)
    /\ phase' = [phase EXCEPT ![t] = "exit"]
    /\ UNCHANGED <<cellVars, scope, pending, runs, log, last, histVars, errs>>

\* One implicit drop of a DeferGuard at the end of the scope.
ScopeExitDrop(t) ==
    /\ phase[t] = "exit" /\ scope[t] # <<>>
    /\ DropImpl(t, NextToDrop(scope[t]), "scope_end")
    /\ UNCHANGED <<canceled, strong, held, phase, pending, histVars>>

----------------------------------------------------------------------------
\* ArcDeferGuard

\* upgrade(mut self): ArcDeferGuard::new_opt(self.0.take()); self is then
\* dropped with what take left in the slot.
Upgrade(t, g) ==
    /\ Idle(t) /\ OwnsGuard(t, g) /\ form[g] = "guard"
    /\ LET f == slot[g]
           left == Take(f) IN
        /\ Called(t, g, Site(GuardDropRuns(left), "drop"))
        /\ canceled' = [canceled EXCEPT ![g] = NewOptCanceled(f)]
        /\ Returned("upgrade", t, g, "arc", GuardDropRuns(left))
    /\ form' = [form EXCEPT ![g] = "arc"]
    /\ strong' = [strong EXCEPT ![g] = 1]
    /\ held' = [held EXCEPT ![g][t] = 1]
    /\ scope' = [scope EXCEPT ![t] = Remove(@, g)]
    /\ touched' = touched \cup {g}
    /\ peak' = [peak EXCEPT ![g] = IF @ < 1 THEN 1 ELSE @]
    /\ UNCHANGED <<slot, phase, pending, origin, trues, cancelCalled>>

\* ArcDeferGuard::new, as the defer_arc! macros call it.
ArcNew(t, n) ==
    /\ t = Main /\ Idle(t)
    /\ \E g \in 1..n : form[g] = "undeclared"
    /\ LET g == NextChain IN
        /\ form' = [form EXCEPT ![g] = "arc"]
        /\ slot' = [slot EXCEPT ![g] = g]
        /\ canceled' = [canceled EXCEPT ![g] = FALSE]
        /\ strong' = [strong EXCEPT ![g] = 1]
        /\ held' = [held EXCEPT ![g][t] = 1]
        /\ origin' = [origin EXCEPT ![g] = "arc"]
        /\ peak' = [peak EXCEPT ![g] = 1]
        /\ Returned("arc_new", t, g, "arc", FALSE)
    /\ UNCHANGED <<scope, phase, pending, runs, log, touched, trues, cancelCalled>>

\* clone() of a handle of thread t; the clone is owned by thread u (moved
\* into its closure, own()), or kept when u = t.
Clone(t, u, g) ==
    /\ Idle(t) /\ form[g] = "arc" /\ held[g][t] > 0
    /\ phase[u] = "body"
    /\ strong[g] < MaxRefs
    /\ strong' = [strong EXCEPT ![g] = @ + 1]
    /\ held' = [held EXCEPT ![g][u] = @ + 1]
    /\ peak' = [peak EXCEPT ![g] = IF @ < strong[g] + 1 THEN strong[g] + 1 ELSE @]
    /\ Returned("clone", t, g, "arc", FALSE)
    /\ UNCHANGED <<form, slot, canceled, scope, phase, pending, runs, log,
                   origin, touched, trues, cancelCalled>>

\* A release that drops the inner value every time, not only at count zero.
ReleaseEager(t, g, op) ==
    /\ strong' = [strong EXCEPT ![g] = @ - 1]
    /\ held' = [held EXCEPT ![g][t] = @ - 1]
    /\ Called(t, g, Site(InnerDropRuns(canceled[g], slot[g]), op))
    /\ Returned(op, t, g, "unit", InnerDropRuns(canceled[g], slot[g]))
    /\ slot' = [slot EXCEPT ![g] = None]
    /\ canceled' = [canceled EXCEPT ![g] = FALSE]
    /\ form' = [form EXCEPT ![g] = IF strong[g] = 1 THEN "gone" ELSE @]

\* Thread t releases one handle of cell g: the strong count is decremented,
\* and the release that takes it to zero drops the ArcDeferGuardInner
\* (impl Drop for ArcDeferGuardInner) and frees the cell.
\* The decrement and the inner drop are one step: once the count is zero no
\* other thread has a handle through which it could reach the cell.
Release(t, g, op) ==
    /\ strong' = [strong EXCEPT ![g] = @ - 1]
    /\ held' = [held EXCEPT ![g][t] = @ - 1]
    /\ IF strong[g] = 1
         THEN /\ Called(t, g, Site(InnerDropRuns(canceled[g], slot[g]), op))
              /\ form' = [form EXCEPT ![g] = "gone"]
              /\ slot' = [slot EXCEPT ![g] = None]
              /\ canceled' = [canceled EXCEPT ![g] = FALSE]
              /\ Returned(op, t, g, "unit", InnerDropRuns(canceled[g], slot[g]))
         ELSE /\ UNCHANGED <<form, slot, canceled, runs, log>>
              /\ Returned(op, t, g, "unit", FALSE)

\* A handle is dropped (explicitly, or at the end of its owner's scope).
DropArc(t, g) ==
    /\ phase[t] \in {"body", "exit"} /\ pending[t] = None
    /\ form[g] = "arc" /\ held[g][t] > 0
    /\ Release(t, g, "arc_drop")
    /\ UNCHANGED <<scope, phase, pending, histVars>>

\* A cancel_ref that flips the flag instead of setting it.
ArcCancelRefToggle(t, g) ==
    /\ Idle(t) /\ form[g] = "arc" /\ held[g][t] > 0
    /\ canceled' = [canceled EXCEPT ![g] = ~@]
    /\ cancelCalled' = cancelCalled \cup {g}
    /\ Returned("arc_cancel_ref", t, g, "unit", FALSE)
    /\ UNCHANGED <<form, slot, strong, held, scope, phase, pending, runs, log,
                   origin, touched, trues, peak>>

\* cancel_ref(&self): self.0.0.store(true, SeqCst).
ArcCancelRef(t, g) ==
    /\ Idle(t) /\ form[g] = "arc" /\ held[g][t] > 0
    /\ canceled' = [canceled EXCEPT ![g] = TRUE]
    /\ cancelCalled' = cancelCalled \cup {g}
    /\ Returned("arc_cancel_ref", t, g, "unit", FALSE)
    /\ UNCHANGED <<form, slot, strong, held, scope, phase, pending, runs, log,
                   origin, touched, trues, peak>>

\* cancel(self), first step: the store.  self is still owned.
ArcCancel(t, g) ==
    /\ Idle(t) /\ form[g] = "arc" /\ held[g][t] > 0
    /\ canceled' = [canceled EXCEPT ![g] = TRUE]
    /\ cancelCalled' = cancelCalled \cup {g}
    /\ pending' = [pending EXCEPT ![t] = g]
    /\ UNCHANGED <<form, slot, strong, held, scope, phase, runs, log, last,
                   origin, touched, trues, peak, errs>>

\* A cancel(self) that forgets self instead of dropping it.
ArcCancelForget(t) ==
    /\ pending[t] # None
    /\ Returned("arc_cancel", t, pending[t], "unit", FALSE)
    /\ pending' = [pending EXCEPT ![t] = None]
    /\ UNCHANGED <<cellVars, runs, log, scope, phase, histVars>>

\* cancel(self), second step: self goes out of scope at the end of cancel.
ArcCancelRelease(t) ==
    /\ pending[t] # None
    /\ Release(t, pending[t], "arc_cancel")
    /\ pending' = [pending EXCEPT ![t] = None]
    /\ UNCHANGED <<scope, phase, histVars>>

\* try_destroy(self): Arc::try_unwrap, then Ok(!inner.0.load()), then inner
\* is dropped at the end of the function.
TryDestroy(t, g) ==
    /\ Idle(t) /\ form[g] = "arc" /\ held[g][t] > 0
    /\ IF TryUnwrapOk(strong[g])
         THEN /\ Called(t, g, Site(InnerDropRuns(canceled[g], slot[g]), "try_destroy"))
              /\ Returned("try_destroy", t, g,
                          IF TryDestroyResult(canceled[g]) THEN "Ok(true)" ELSE "Ok(false)",
                          InnerDropRuns(canceled[g], slot[g]))
              /\ form' = [form EXCEPT ![g] = "gone"]
              /\ slot' = [slot EXCEPT ![g] = None]
              /\ canceled' = [canceled EXCEPT ![g] = FALSE]
              /\ strong' = [strong EXCEPT ![g] = 0]
              /\ held' = [held EXCEPT ![g][t] = @ - 1]
         ELSE /\ Returned("try_destroy", t, g, "Err", FALSE)
              /\ UNCHANGED <<cellVars, runs, log>>
    /\ UNCHANGED <<scope, phase, pending, histVars>>

\* try_downgrade(self): Arc::try_unwrap, then DeferGuard(inner.1.take()) if
\* the flag is clear and DeferGuard(None) otherwise; inner is dropped at the
\* end of the function with what is left in its slot.  The DeferGuard is a
\* new local of the caller.
TryDowngrade(t, g) ==
    /\ Idle(t) /\ form[g] = "arc" /\ held[g][t] > 0
    /\ IF TryUnwrapOk(strong[g])
         THEN LET c == canceled[g]
                  f == slot[g]
                  left == IF ~c THEN Take(f) ELSE f IN
              /\ Called(t, g, Site(InnerDropRuns(c, left), "drop"))
              /\ Returned("try_downgrade", t, g, "Ok", InnerDropRuns(c, left))
              /\ form' = [form EXCEPT ![g] = "guard"]
              /\ slot' = [slot EXCEPT ![g] = DowngradeSlot(c, f)]
              /\ canceled' = [canceled EXCEPT ![g] = FALSE]
              /\ strong' = [strong EXCEPT ![g] = 0]
              /\ held' = [held EXCEPT ![g][t] = @ - 1]
              /\ scope' = [scope EXCEPT ![t] = Append(@, g)]
         ELSE /\ Returned("try_downgrade", t, g, "Err", FALSE)
              /\ UNCHANGED <<cellVars, runs, log, scope>>
    /\ UNCHANGED <<phase, pending, histVars>>

----------------------------------------------------------------------------
\* One closure, its guard taking both forms and shared between the threads.
\* (No action reads or writes the fields of two chains, so the guards of
\* different closures never act on one another.)
Next ==
    \/ \E t \in Threads : DeferGuardNew(t, 1)
    \/ \E t \in Threads, g \in Chains : Destroy(t, g)
    \/ \E t \in Threads, g \in Chains : DestroyRef(t, g)
    \/ \E t \in Threads, g \in Chains : Cancel(t, g)
    \/ \E t \in Threads, g \in Chains : CancelRef(t, g)
    \/ \E t \in Threads, g \in Chains : DropGuard(t, g)
    \/ \E t \in Threads, g \in Chains : Upgrade(t, g)
    \/ \E t \in Threads : ArcNew(t, 1)
    \/ \E t \in Threads, u \in Threads, g \in Chains : Clone(t, u, g)
    \/ \E t \in Threads, g \in Chains : DropArc(t, g)
    \/ \E t \in Threads, g \in Chains : ArcCancelRef(t, g)
    \/ \E t \in Threads, g \in Chains : ArcCancel(t, g)
    \/ \E t \in Threads : ArcCancelRelease(t)
    \/ \E t \in Threads, g \in Chains : TryDestroy(t, g)
    \/ \E t \in Threads, g \in Chains : TryDowngrade(t, g)
    \/ \E t \in Threads : ScopeEnd(t)
    \/ \E t \in Threads : ScopeExitDrop(t)

Spec == Init /\ [][Next]_vars

\* One scope of one thread with NumGuards DeferGuards in it.
NextScope ==
    \/ DeferGuardNew(Main, NumGuards)
    \/ \E g \in Chains : Destroy(Main, g)
    \/ \E g \in Chains : DestroyRef(Main, g)
    \/ \E g \in Chains : Cancel(Main, g)
    \/ \E g \in Chains : CancelRef(Main, g)
    \/ \E g \in Chains : DropGuard(Main, g)
    \/ ScopeEnd(Main)
    \/ ScopeExitDrop(Main)

SpecScope == Init /\ [][NextScope]_vars
----------------------------------------------------------------------------
\* The guard of defer_opt! / defer_opt_guard!: a DeferStruct holding the
\* closure itself (no Option), a local of the current scope.

\* defer_opt!: let _defered = DeferStruct(closure).  The binding is hygienic,
\* so the program has no name for the guard: only the end of the scope drops it.
DeferOpt(t, n) ==
    /\ t = Main /\ Idle(t)
    /\ \E g \in 1..n : form[g] = "undeclared"
    /\ LET g == NextChain IN
        /\ form' = [form EXCEPT ![g] = "opt"]
        /\ slot' = [slot EXCEPT ![g] = g]
        /\ scope' = [scope EXCEPT ![t] = Append(@, g)]
        /\ origin' = [origin EXCEPT ![g] = "opt"]
        /\ Returned("defer_opt", t, g, "opt", FALSE)
    /\ UNCHANGED <<canceled, strong, held, phase, pending, runs, log,
                   touched, trues, cancelCalled, peak>>

\* defer_opt_guard!: the DeferStruct is the value of the macro, bound by the
\* caller, who can call cancel and destroy on it.
DeferOptGuard(t, n) ==
    /\ t = Main /\ Idle(t)
    /\ \E g \in 1..n : form[g] = "undeclared"
    /\ LET g == NextChain IN
        /\ form' = [form EXCEPT ![g] = "opt"]
        /\ slot' = [slot EXCEPT ![g] = g]
        /\ scope' = [scope EXCEPT ![t] = Append(@, g)]
        /\ origin' = [origin EXCEPT ![g] = "opt_guard"]
        /\ Returned("defer_opt_guard", t, g, "opt", FALSE)
    /\ UNCHANGED <<canceled, strong, held, phase, pending, runs, log,
                   touched, trues, cancelCalled, peak>>

\* impl Drop for DeferStruct: (&mut self.0)(), whatever the guard went through.
OptDropImpl(t, g, by) ==
    /\ Called(t, g, <<by>>)
    /\ slot' = [slot EXCEPT ![g] = None]
    /\ form' = [form EXCEPT ![g] = "gone"]
    /\ scope' = [scope EXCEPT ![t] = Remove(@, g)]
    /\ Returned(by, t, g, "unit", TRUE)

\* destroy(self) {}: self is dropped when destroy returns.
OptDestroy(t, g) ==
    /\ Idle(t) /\ OwnsGuard(t, g) /\ form[g] = "opt" /\ origin[g] = "opt_guard"
    /\ OptDropImpl(t, g, "opt_destroy")
    /\ touched' = touched \cup {g}
    /\ UNCHANGED <<canceled, strong, held, phase, pending, origin, trues,
                   cancelCalled, peak>>

\* A cancel that lets self go out of scope instead of forgetting it.
OptCancelDrops(t, g) ==
    /\ Idle(t) /\ OwnsGuard(t, g) /\ form[g] = "opt" /\ origin[g] = "opt_guard"
    /\ Called(t, g, <<"drop">>)
    /\ slot' = [slot EXCEPT ![g] = None]
    /\ form' = [form EXCEPT ![g] = "gone"]
    /\ scope' = [scope EXCEPT ![t] = Remove(@, g)]
    /\ Returned("opt_cancel", t, g, "unit", TRUE)
    /\ touched' = touched \cup {g}
    /\ UNCHANGED <<canceled, strong, held, phase, pending, origin, trues,
                   cancelCalled, peak>>

\* cancel(self): core::mem::forget(self).  The guard is moved out of the scope
\* and its destructor is never run; the closure stays in the forgotten value.
OptCancel(t, g) ==
    /\ Idle(t) /\ OwnsGuard(t, g) /\ form[g] = "opt" /\ origin[g] = "opt_guard"
    /\ form' = [form EXCEPT ![g] = "forgotten"]
    /\ scope' = [scope EXCEPT ![t] = Remove(@, g)]
    /\ Returned("opt_cancel", t, g, "unit", FALSE)
    /\ touched' = touched \cup {g}
    /\ UNCHANGED <<slot, canceled, strong, held, phase, pending, runs, log,
                   origin, trues, cancelCalled, peak>>

\* One implicit drop of a DeferStruct at the end of the scope.
OptScopeExitDrop(t) ==
    /\ phase[t] = "exit" /\ scope[t] # <<>>
    /\ OptDropImpl(t, NextToDrop(scope[t]), "scope_end")
    /\ UNCHANGED <<canceled, strong, held, phase, pending, histVars>>

\* One scope of one thread with NumGuards guards of the two macros in it.
NextOpt ==
    \/ DeferOpt(Main, NumGuards)
    \/ DeferOptGuard(Main, NumGuards)
    \/ \E g \in Chains : OptDestroy(Main, g)
    \/ \E g \in Chains : OptCancel(Main, g)
    \/ ScopeEnd(Main)
    \/ OptScopeExitDrop(Main)

SpecOpt == Init /\ [][NextOpt]_vars
----------------------------------------------------------------------------
\* Claims about DeferGuard.

ScopeLeft(t) == phase[t] = "exit" /\ scope[t] = <<>>

\* C1: for every DeferGuard, over any sequence of destroy / destroy_ref /
\* cancel / cancel_ref calls and the implicit drop, the closure is called at
\* most once, and at most one of the calls returns true.
C1_RunOnce ==
    \A g \in Chains :
        /\ runs[g] <= 1
        /\ trues[g].destroy + trues[g].cancel <= 1

\* A guard whose destroy_ref returned true and called the closure has been
\* dropped at the end of the scope, and the drop called nothing.
C1_Witness ==
    \E g \in Chains :
        /\ form[g] = "gone" /\ runs[g] = 1 /\ trues[g].destroy = 1
        /\ last.op = "scope_end" /\ last.g = g /\ ~last.ran

\* C5: guards G1..Gn declared in that order in one scope, none triggered or
\* canceled early: at the end of the scope their closures are called in the
\* order Gn, ..., G1.
C5_Lifo ==
    ( /\ ScopeLeft(Main)
      /\ \A g \in Chains : origin[g] = "guard"
      /\ touched = {}
      /\ \A i \in 1..Len(log) : log[i].by = "scope_end" )
    => [i \in 1..Len(log) |-> log[i].a] = [i \in 1..NumGuards |-> NumGuards + 1 - i]

C5_Witness ==
    /\ ScopeLeft(Main)
    /\ \A g \in Chains : origin[g] = "guard"
    /\ touched = {}
    /\ Len(log) = NumGuards
    /\ \A i \in 1..Len(log) : log[i].by = "scope_end"

\* C6: cancel / cancel_ref on a DeferGuard whose closure is present returns
\* true; from then on the closure is never called, and the drop of the guard
\* calls nothing.
C6_CancelPreventsRun ==
    /\ [](\A g \in Chains : trues[g].cancel >= 1 => runs[g] = 0)
    /\ [][\A g \in Chains :
            /\ (Cancel(Main, g) \/ CancelRef(Main, g)) /\ slot[g] # None
                 => last'.res = "true" /\ trues'[g].cancel = 1 /\ runs'[g] = runs[g]
            /\ trues[g].cancel >= 1 /\ form[g] = "guard" /\ form'[g] = "gone"
                 => runs' = runs /\ log' = log /\ ~last'.ran]_vars

\* A guard canceled by cancel_ref (which returned true) has been dropped at the
\* end of the scope, and nothing was called.
C6_Witness ==
    \E g \in Chains :
        /\ trues[g].cancel = 1 /\ form[g] = "gone" /\ runs[g] = 0
        /\ last.op = "scope_end" /\ last.g = g /\ ~last.ran

\* C7: a DeferGuard on which no method was called has not called its closure
\* while it is alive, and has called it exactly once when it has been dropped.
C7_RunsAtDrop ==
    \A g \in Chains :
        origin[g] = "guard" /\ g \notin touched =>
            /\ form[g] = "guard" => runs[g] = 0 /\ slot[g] = g
            /\ form[g] = "gone" => runs[g] = 1
            /\ form[g] \in {"guard", "gone"}

C7_Witness ==
    \E g \in Chains :
        /\ origin[g] = "guard" /\ g \notin touched
        /\ form[g] = "gone" /\ runs[g] = 1
        /\ last.op \in {"drop", "scope_end"} /\ last.g = g /\ last.ran
----------------------------------------------------------------------------
\* Claims about ArcDeferGuard.

\* The chain was constructed as an ArcDeferGuard (ArcDeferGuard::new), no
\* cancel / cancel_ref was called on it, and no method of a DeferGuard it was
\* downgraded to was called.
PlainShared(g) ==
    origin[g] = "arc" /\ g \notin cancelCalled /\ g \notin touched

\* C2: an ArcDeferGuard that is never canceled, its clones held by several
\* threads: when all the references have been dropped, in whatever order, the
\* closure has been called exactly once; it is never called twice.
C2_SharedRunOnce ==
    \A g \in Chains :
        PlainShared(g) => /\ runs[g] <= 1
                          /\ form[g] = "gone" => runs[g] = 1

\* The cell has had as many references as there are threads; all were
\* dropped, the last one by a thread other than the one that created the guard.
C2_Witness ==
    \E g \in Chains :
        /\ PlainShared(g) /\ form[g] = "gone" /\ peak[g] = NumThreads
        /\ runs[g] = 1
        /\ last.op = "arc_drop" /\ last.g = g /\ last.ran /\ last.t # Main

\* C3: once cancel or cancel_ref was called on an ArcDeferGuard, no step of
\* any thread calls the closure, whichever reference is released last.
C3_CancelWins ==
    [][\A g \in Chains : g \in cancelCalled => runs'[g] = runs[g]]_vars

\* The cell had two references or more, cancel(self) was called, and the
\* reference released by cancel was the last one: nothing was called.
C3_Witness ==
    \E g \in Chains :
        /\ g \in cancelCalled /\ g \notin touched /\ origin[g] = "arc"
        /\ peak[g] >= 2 /\ form[g] = "gone" /\ runs[g] = 0
        /\ last.op = "arc_cancel" /\ last.g = g

\* C4: while a reference to a never canceled ArcDeferGuard is held, its closure
\* has not been called; a drop calls it iff it takes the strong count from one
\* to zero.
C4_RunsAtLastDrop ==
    /\ [](\A g \in Chains :
            PlainShared(g) /\ form[g] = "arc" /\ (\E t \in Threads : held[g][t] > 0)
                => runs[g] = 0)
    /\ [][\A t \in Threads, g \in Chains :
            DropArc(t, g) /\ PlainShared(g)
                => runs'[g] = runs[g] + Count(strong[g] = 1)]_vars

\* Two holders: the closure was called by the drop of the second one, on a
\* thread that did not create the guard.
C4_Witness ==
    \E g \in Chains :
        /\ PlainShared(g) /\ peak[g] = 2 /\ form[g] = "gone" /\ runs[g] = 1
        /\ last.op = "arc_drop" /\ last.g = g /\ last.ran /\ last.t # Main

\* C8: try_destroy and try_downgrade on a cell with other references return
\* Err with the guard and change nothing of the cell; on a cell with one
\* reference they return Ok.
C8_UniqueOwnerGating ==
    [][\A t \in Threads, g \in Chains :
        (TryDestroy(t, g) \/ TryDowngrade(t, g)) =>
            /\ strong[g] > 1 =>
                 /\ last'.res = "Err"
                 /\ UNCHANGED <<form, slot, canceled, strong, held, scope, runs, log>>
            /\ strong[g] = 1 => last'.res # "Err" /\ form'[g] # "arc"]_vars

\* try_downgrade has failed on a canceled cell with two references, which are
\* still there, as is the flag.
C8_Witness ==
    \E g \in Chains :
        /\ last.op = "try_downgrade" /\ last.g = g /\ last.res = "Err"
        /\ form[g] = "arc" /\ strong[g] = 2 /\ canceled[g] /\ slot[g] = g
        /\ runs[g] = 0

\* C9: a try_destroy that succeeds returns Ok(true) iff it called the closure,
\* and Ok(false) iff it did not because the flag was set; the cell is gone, and
\* the closure of a cell that is gone is never called.
C9_TryDestroyResult ==
    [][\A t \in Threads, g \in Chains :
        /\ TryDestroy(t, g) /\ strong[g] = 1 =>
             /\ last'.res \in {"Ok(true)", "Ok(false)"}
             /\ last'.res = "Ok(true)" <=> runs'[g] = runs[g] + 1
             /\ last'.res = "Ok(false)" <=> runs'[g] = runs[g] /\ canceled[g]
             /\ form'[g] = "gone" /\ slot'[g] = None
        /\ form[g] = "gone" => form'[g] = "gone" /\ runs'[g] = runs[g]]_vars

\* try_destroy has returned Ok(false) on a cell that no one canceled: it was
\* made by upgrade from a guard whose closure was already taken.
C9_Witness ==
    \E g \in Chains :
        /\ last.op = "try_destroy" /\ last.g = g /\ last.res = "Ok(false)"
        /\ g \notin cancelCalled /\ g \in touched /\ form[g] = "gone"

\* C10: a try_downgrade that succeeds returns a DeferGuard that holds the
\* closure iff the flag was clear, and calls nothing; destroy on the guard
\* downgraded from a fresh ArcDeferGuard calls the closure, once.
C10_Downgrade ==
    [][\A t \in Threads, g \in Chains :
        /\ TryDowngrade(t, g) /\ strong[g] = 1 =>
             /\ form'[g] = "guard" /\ OwnsGuard(t, g)'
             /\ slot'[g] # None <=> ~canceled[g]
             /\ slot'[g] \in {None, slot[g]}
             /\ runs' = runs
        /\ Destroy(t, g) /\ PlainShared(g) =>
             runs[g] = 0 /\ runs'[g] = 1 /\ last'.res = "true"]_vars

\* ArcDeferGuard::new, try_downgrade at strong count one, destroy: the closure
\* has been called once, by destroy.
C10_Witness ==
    \E g \in Chains :
        /\ origin[g] = "arc" /\ g \notin cancelCalled /\ peak[g] = 1
        /\ last.op = "destroy" /\ last.g = g /\ last.res = "true"
        /\ runs[g] = 1 /\ form[g] = "gone"
        /\ trues[g].destroy = 1 /\ trues[g].cancel = 0

----------------------------------------------------------------------------
\* Conversions and return values.

\* C11: upgrade of a DeferGuard gives an ArcDeferGuard with strong count one,
\* owned by the caller, whose cell holds what the slot of the guard held; its
\* flag is set iff that slot was None.
C11_Upgrade ==
    [][\A t \in Threads, g \in Chains :
        Upgrade(t, g) =>
            /\ form'[g] = "arc" /\ strong'[g] = 1
            /\ held'[g] = [u \in Threads |-> IF u = t THEN 1 ELSE 0]
            /\ ~OwnsGuard(t, g)'
            /\ slot'[g] = slot[g]
            /\ canceled'[g] <=> slot[g] = None]_vars

\* A guard emptied by destroy_ref (which called the closure) has been upgraded:
\* the cell is canceled and holds nothing.
C11_Witness ==
    \E g \in Chains :
        /\ last.op = "upgrade" /\ last.g = g
        /\ form[g] = "arc" /\ strong[g] = 1 /\ canceled[g] /\ slot[g] = None
        /\ trues[g].destroy = 1 /\ runs[g] = 1

\* C12: destroy and destroy_ref return true iff the closure was present, and
\* then it has been called, once, by the calling thread, when they return; on
\* an empty slot they return false and call nothing.  destroy_ref leaves the
\* guard alive with an empty slot, and the drop of such a guard calls nothing.
C12_DestroyResult ==
    [][\A t \in Threads, g \in Chains :
        /\ (Destroy(t, g) \/ DestroyRef(t, g)) =>
             /\ last'.res = "true" <=> slot[g] # None
             /\ last'.res = "false" <=> slot[g] = None
             /\ runs'[g] = runs[g] + Count(slot[g] # None)
             /\ slot[g] # None =>
                  /\ Len(log') = Len(log) + 1
                  /\ log'[Len(log')].a = g /\ log'[Len(log')].t = t
             /\ slot[g] = None => log' = log
        /\ DestroyRef(t, g) =>
             form'[g] = "guard" /\ slot'[g] = None /\ OwnsGuard(t, g)'
        /\ form[g] = "guard" /\ slot[g] = None /\ form'[g] = "gone" =>
             runs' = runs /\ log' = log]_vars

\* destroy_ref has returned true and called the closure, a second destroy_ref
\* has returned false, and the guard is still alive.
C12_Witness ==
    \E g \in Chains :
        /\ last.op = "destroy_ref" /\ last.g = g /\ last.res = "false"
        /\ form[g] = "guard" /\ slot[g] = None
        /\ trues[g].destroy = 1 /\ runs[g] = 1

\* C13: destroy(guard) does what drop(guard) does.  The two can be called in
\* the same states, and a destroy step changes the guard, the scope, the other
\* guards and the sequence of closure calls exactly as impl Drop would, whether
\* the slot holds the closure or not; what can follow is therefore the same.
C13_DestroyIsDrop ==
    /\ [](\A t \in Threads, g \in Chains :
            ENABLED Destroy(t, g) <=> ENABLED DropGuard(t, g))
    /\ [][\A t \in Threads, g \in Chains :
            Destroy(t, g) =>
                /\ DropState(t, g, "destroy")
                /\ UNCHANGED <<canceled, strong, held, phase, pending>>]_vars

\* A guard was destroyed with its closure present, the closure was called, and
\* the scope went on to its end.
C13_Witness ==
    /\ ScopeLeft(Main)
    /\ \E g \in Chains :
        /\ form[g] = "gone" /\ runs[g] = 1 /\ trues[g].destroy = 1
        /\ \E i \in 1..Len(log) : log[i].a = g /\ log[i].by = "destroy"

\* The scope of the defer_guard! example has been left: every guard was
\* declared, the third was destroyed (its closure present), the first was
\* canceled (its closure present), no method was called on the others and
\* none of them was dropped by hand.
ExampleScopeLeft ==
    /\ ScopeLeft(Main)
    /\ \A g \in Chains : origin[g] = "guard"
    /\ touched = {1, 3}
    /\ trues[1] = [destroy |-> 0, cancel |-> 1]
    /\ trues[3] = [destroy |-> 1, cancel |-> 0]
    /\ \A i \in 1..Len(log) : log[i].a \notin touched => log[i].by = "scope_end"

\* C14: defer1, defer2, defer3 declared in that order, defer3.destroy() and
\* defer1.cancel() in the body: the closure of defer3 is called first, by the
\* destroy call, then the closure of defer2 at the end of the scope (with more
\* guards: those of the untouched ones, last declared first); the closure of
\* defer1 is never called and that of defer3 is not called again.
C14_ExampleOrder ==
    ExampleScopeLeft =>
        /\ runs[1] = 0 /\ runs[3] = 1
        /\ Len(log) = NumGuards - 1
        /\ log[1].a = 3 /\ log[1].by \in {"destroy", "destroy_ref"}
        /\ \A i \in 2..Len(log) : log[i].by = "scope_end" /\ log[i].a \notin {1, 3}
        /\ \A i, j \in 2..Len(log) : i < j => log[i].a > log[j].a

C14_Witness ==
    /\ ExampleScopeLeft
    /\ log[1] = [a |-> 3, t |-> Main, by |-> "destroy"]
    /\ last = [op |-> "scope_end", t |-> Main, g |-> 2, res |-> "unit", ran |-> TRUE]

\* C15: the closure of an ArcDeferGuard is called by the thread that releases
\* the last reference, by dropping it or by try_destroy: a step that calls it
\* is taken by a thread that owns the only reference left, and that reference
\* is gone afterwards.  This thread need not be the one that created the guard.
C15_RunsOnLastReleaser ==
    [][\A g \in Chains :
        form[g] = "arc" /\ runs'[g] # runs[g] =>
            /\ runs'[g] = runs[g] + 1
            /\ Len(log') = Len(log) + 1 /\ log'[Len(log')].a = g
            /\ LET t == log'[Len(log')].t IN
                /\ strong[g] = 1 /\ held[g][t] = 1
                /\ \A u \in Threads : held'[g][u] = 0
                /\ form'[g] = "gone"
                /\ last'.t = t /\ last'.op \in {"arc_drop", "arc_cancel", "try_destroy"}]_vars

\* Main created the guard and gave a clone to another thread; Main dropped its
\* handle first, and the closure was called on the other thread.
C15_Witness ==
    \E g \in Chains :
        /\ origin[g] = "arc" /\ peak[g] = 2 /\ form[g] = "gone" /\ runs[g] = 1
        /\ Len(log) = 1 /\ log[1].a = g /\ log[1].t # Main
        /\ log[1].by \in {"arc_drop", "try_destroy"}

\* The same guard, the other thread dropping first: the closure was called on
\* the thread that created the guard.
C15_OnCreator ==
    \E g \in Chains :
        /\ origin[g] = "arc" /\ peak[g] = 2 /\ form[g] = "gone" /\ runs[g] = 1
        /\ Len(log) = 1 /\ log[1].a = g /\ log[1].t = Main
        /\ log[1].by \in {"arc_drop", "try_destroy"}

\* C16: the slot of a DeferGuard is one-shot.  destroy, destroy_ref, cancel,
\* cancel_ref and the drop leave it absent, and a slot that is absent is
\* never present again: no step puts a closure back, neither a method of the
\* guard nor an upgrade followed by a downgrade.
C16_SlotOneShot ==
    [][\A g \in Chains :
        /\ form[g] # "undeclared" /\ slot[g] = None => slot'[g] = None
        /\ \A t \in Threads :
             \/ Destroy(t, g) \/ DestroyRef(t, g) \/ Cancel(t, g)
             \/ CancelRef(t, g) \/ DropGuard(t, g)
             => slot'[g] = None]_vars

\* destroy_ref emptied the slot of a guard; the guard was then upgraded and
\* downgraded again, and the DeferGuard that came back has an empty slot.
C16_Witness ==
    \E g \in Chains :
        /\ origin[g] = "guard" /\ trues[g].destroy = 1 /\ runs[g] = 1
        /\ form[g] = "guard" /\ slot[g] = None
        /\ last.op = "try_downgrade" /\ last.g = g /\ last.res = "Ok"

\* C17: the canceled flag of a cell only goes from false to true.  While the
\* cell is allocated, no step of any holder (clone, drop of a reference,
\* cancel, cancel_ref, a try_destroy or try_downgrade that fails) clears it,
\* and a cancel or cancel_ref of a canceled cell leaves the flag set.
C17_CanceledMonotonic ==
    [][\A g \in Chains :
        /\ form[g] = "arc" /\ canceled[g] /\ form'[g] = "arc" => canceled'[g]
        /\ \A t \in Threads :
             ArcCancelRef(t, g) \/ ArcCancel(t, g) => canceled'[g]
        /\ \A t \in Threads :
             (TryDestroy(t, g) \/ TryDowngrade(t, g)) /\ last'.res = "Err"
             => canceled'[g] = canceled[g] /\ form'[g] = "arc"]_vars

\* Two holders have canceled the same cell, one by cancel_ref and one by the
\* store of cancel (its reference not yet released); the flag is set.
C17_Witness ==
    \E g \in Chains, t \in Threads :
        /\ form[g] = "arc" /\ canceled[g] /\ pending[t] = g
        /\ last.op = "arc_cancel_ref" /\ last.g = g /\ last.t # t

\* C18: cancel_ref of an ArcDeferGuard sets the flag and changes nothing else
\* of the cell: the strong count, the caller's reference and the closure stay.
\* cancel sets the flag in the same way and then releases the one reference of
\* the caller; if that was the last one the cell is freed, and no closure is
\* called by any of these steps.
C18_CancelFrame ==
    [][\A t \in Threads, g \in Chains :
        /\ ArcCancelRef(t, g) \/ ArcCancel(t, g) =>
             /\ canceled'[g]
             /\ UNCHANGED <<form, slot, strong, held, runs, log>>
        /\ ArcCancel(t, g) => pending'[t] = g
        /\ ArcCancelRelease(t) /\ pending[t] = g =>
             /\ strong'[g] = strong[g] - 1
             /\ held'[g] = [held[g] EXCEPT ![t] = @ - 1]
             /\ runs' = runs /\ log' = log /\ ~last'.ran
             /\ IF strong[g] = 1
                  THEN form'[g] = "gone"
                  ELSE form'[g] = "arc" /\ canceled'[g] /\ slot'[g] = slot[g]]_vars

\* cancel(self) has returned on one holder while another still has its
\* reference: the cell is allocated, canceled, and still has its closure.
C18_Witness ==
    \E g \in Chains :
        /\ last.op = "arc_cancel" /\ last.g = g
        /\ form[g] = "arc" /\ strong[g] >= 1 /\ canceled[g] /\ slot[g] # None
        /\ held[g][last.t] = 0

\* cancel(self) released the last reference: the cell was freed with its
\* closure never called.
C18_LastCancel ==
    \E g \in Chains :
        /\ last.op = "arc_cancel" /\ last.g = g /\ ~last.ran
        /\ form[g] = "gone" /\ strong[g] = 0 /\ runs[g] = 0 /\ origin[g] = "arc"

\* C20: an allocated cell (strong count above zero) whose slot is empty is
\* canceled; so a cell whose flag is clear holds its closure, and !canceled,
\* as try_destroy returns it and as the drop of the inner value tests it, is
\* true exactly when that drop calls the closure.
C20_AbsentImpliesCanceled ==
    /\ [](\A g \in Chains :
            form[g] = "arc" /\ strong[g] > 0 /\ slot[g] = None => canceled[g])
    /\ [][\A g \in Chains :
            form[g] = "arc" /\ form'[g] = "gone" =>
                /\ runs'[g] = runs[g] + Count(~canceled[g])
                /\ last'.ran <=> ~canceled[g]
                /\ last'.op = "try_destroy" =>
                     (last'.res = "Ok(true)" <=> last'.ran)]_vars

\* A cell made by upgrade from an emptied guard, with two references: its
\* slot is empty, no one called cancel on it, and it is canceled.
C20_Witness ==
    \E g \in Chains :
        /\ form[g] = "arc" /\ strong[g] = 2 /\ slot[g] = None /\ canceled[g]
        /\ g \notin cancelCalled /\ origin[g] = "guard"

\* C21: two holders of an uncanceled ArcDeferGuard that call try_destroy or
\* try_downgrade against one another.  A call succeeds only when its caller
\* owns the only reference, and then no handle is left on which another call
\* could succeed; a call that fails changes nothing and gives the caller its
\* handle back.  When both calls have failed, the closure has not been called
\* while a handle is left and has been called exactly once when the handles
\* have been dropped; no closure is ever called twice.
C21_TryRace ==
    /\ [](\A g \in Chains :
            /\ runs[g] <= 1
            /\ errs.g = g /\ Cardinality(errs.ts) >= 2 /\ g \notin cancelCalled =>
                 /\ form[g] \in {"arc", "gone"}
                 /\ form[g] = "arc" => runs[g] = 0 /\ strong[g] > 0
                 /\ form[g] = "gone" => runs[g] = 1)
    /\ [][\A t \in Threads, g \in Chains :
            TryDestroy(t, g) \/ TryDowngrade(t, g) =>
                IF last'.res = "Err"
                  THEN /\ strong[g] >= 2
                       /\ UNCHANGED <<cellVars, runs, log>>
                  ELSE /\ strong[g] = 1
                       /\ \A u \in Threads : u # t => held[g][u] = 0
                       /\ \A u \in Threads : held'[g][u] = 0
                       /\ form'[g] # "arc"]_vars

\* try_destroy / try_downgrade of two threads failed one after the other on
\* a cell with two references that no one canceled; both handles were then
\* dropped, and the drop of the second one called the closure.
C21_Witness ==
    \E g \in Chains :
        /\ errs.g = g /\ Cardinality(errs.ts) >= 2 /\ g \notin cancelCalled
        /\ peak[g] = 2 /\ form[g] = "gone" /\ runs[g] = 1
        /\ last.op = "arc_drop" /\ last.g = g /\ last.ran

\* C22: a conversion between the two forms calls nothing, although it drops
\* the object it converts: neither upgrade (From<DeferGuard>) nor a
\* try_downgrade that succeeds (TryFrom<ArcDeferGuard>) changes the number of
\* calls.  Over every sequence of upgrade, clone, drop, cancel, try_downgrade
\* and destroy on the guards made from one closure, it is called at most once.
C22_ConversionsCallNothing ==
    /\ [](\A g \in Chains : runs[g] <= 1 /\ runs[g] <= Len(log))
    /\ [][\A t \in Threads, g \in Chains :
            /\ Upgrade(t, g) =>
                 runs' = runs /\ log' = log /\ ~last'.ran /\ slot'[g] = slot[g]
            /\ TryDowngrade(t, g) /\ last'.res = "Ok" =>
                 runs' = runs /\ log' = log /\ ~last'.ran
                 /\ (slot'[g] = slot[g] \/ canceled[g])]_vars

\* A DeferGuard was upgraded, the ArcDeferGuard was cloned and the clone
\* dropped, it was downgraded again, and destroy on the DeferGuard that came
\* back called the closure: one call in all.
C22_Witness ==
    \E g \in Chains :
        /\ origin[g] = "guard" /\ peak[g] >= 2 /\ g \notin cancelCalled
        /\ form[g] = "gone" /\ runs[g] = 1 /\ Len(log) = 1
        /\ last.op = "destroy" /\ last.g = g /\ last.res = "true"

----------------------------------------------------------------------------
\* Claims about the guard of defer_opt! / defer_opt_guard!.

Lite(g) == origin[g] \in {"opt", "opt_guard"}

\* C19: the guard of defer_opt! / defer_opt_guard! calls its closure exactly
\* once when it is dropped at the end of the scope or when destroy is called,
\* never when cancel is called, and never twice; each of its steps does to
\* the closure and to the scope what the step of a DeferGuard holding a
\* closure does (destroy and the drop as impl Drop for DeferGuard, cancel
\* calling nothing).
C19_LiteGuard ==
    /\ [](\A g \in Chains : Lite(g) =>
            /\ runs[g] <= 1
            /\ form[g] = "opt" => runs[g] = 0 /\ slot[g] = g
            /\ form[g] = "gone" => runs[g] = 1
            /\ form[g] = "forgotten" => runs[g] = 0
            /\ form[g] \in {"opt", "gone", "forgotten"})
    /\ [][\A g \in Chains :
            /\ OptDestroy(Main, g) => DropState(Main, g, "opt_destroy")
            /\ OptScopeExitDrop(Main) /\ g = NextToDrop(scope[Main])
                 => DropState(Main, g, "scope_end")
            /\ OptCancel(Main, g) =>
                 /\ runs' = runs /\ log' = log
                 /\ scope' = [scope EXCEPT ![Main] = Remove(@, g)]
            /\ form[g] = "forgotten" => form'[g] = "forgotten"]_vars

\* The scope was left with three guards in it: one was canceled and called
\* nothing, one was destroyed and one was dropped at the end of the scope,
\* each calling its closure once.
C19_Witness ==
    /\ ScopeLeft(Main)
    /\ \A g \in Chains : Lite(g) /\ runs[g] <= 1
    /\ \E g \in Chains : form[g] = "forgotten" /\ runs[g] = 0
    /\ \E i, j \in 1..Len(log) :
         log[i].by = "opt_destroy" /\ log[j].by = "scope_end" /\ log[j].a # log[i].a
====
